---- MODULE Spec2Model ----
(***************************************************************************)
(* A model of schedule.py: the learning-rate wrappers NoamOpt and          *)
(* CustomAdam, LabelSmoothing, the Batch masks, the batch generators and   *)
(* the two loss-compute callables.                                         *)
(*                                                                         *)
(* Numbers.  A learning rate is a positive real that involves a square     *)
(* root, so a rate r is carried as the exact fraction [n, d] with          *)
(* n / d = r * r.  All rates are >= 0, hence r1 <= r2 iff r1*r1 <= r2*r2   *)
(* and the order and the equality of rates are those of the fractions.     *)
(* warmup is carried in halves (warmup = warmup2 / 2) so that non-integer  *)
(* warmups are covered.                                                    *)
(***************************************************************************)
EXTENDS Integers, Sequences, FiniteSets, TLC

\* ---------------------------------------------------------------- bounds
MaxWarmup2 == 6
MaxFactor == 2
MaxModelSize == 2
MaxGroups == 2
MaxCalls == 6
MaxLr == 1
MaxSize == 4
MaxRows == 3
MaxSmoothN == 1
MaxG == 1
MaxLossCalls == 3
MaxN == 5
MaxV == 3
MaxBatch == 1
MaxNb == 3
MaxSample == 1
\* size=(batch, 10) in data_gen
SeqCols == 10

VARIABLES
    optKind,      \* which wrapper exists: "none", "noam" or "adam"
    warmup2,      \* NoamOpt.warmup, in halves
    factor,       \* NoamOpt.factor
    model_size,   \* NoamOpt.model_size
    hasSched,     \* CustomAdam.scheduler is not None
    w,            \* the wrapper and the optimizer it wraps (see WrapperInit)
    calls,        \* number of handler calls made so far
    \* loss compute
    grad,         \* the model's accumulated gradient buffer (one scalar parameter)
    lastCall,     \* "none", "simple" or "tt2": the loss-compute variant called last
    \* LabelSmoothing
    ls,           \* the criterion's configuration: size, padding_idx, smoothing
    true_dist,    \* LabelSmoothing.true_dist
    lsOut,        \* how the last forward ended: "none", "ok" or the exception
    x_cols,       \* x.size(1) of the x given to forward
    lastTarget,   \* the target given to forward
    \* masks
    tgt,          \* tgt.sum(dim=-1) of one target sequence: a sum per frame
    pad,          \* the pad value given to make_std_mask
    maskSize,     \* the argument of the last subsequent_mask call
    mask,         \* its result
    tgt_mask,     \* the result of the last make_std_mask(tgt, pad) call
    \* data_gen
    gen,          \* the generator data_gen(V, batch, nbatches, device)
    \* data_prepare_tt2 and data_gen_tt2
    prep          \* the arguments, the prepared data and the generator over it

varsOpt == <<optKind, warmup2, factor, model_size, hasSched, w, calls>>
varsLoss == <<grad, lastCall>>
varsLS == <<ls, true_dist, lsOut, x_cols, lastTarget>>
varsMask == <<tgt, pad, maskSize, mask, tgt_mask>>
vars == <<varsOpt, varsLoss, varsLS, varsMask, gen, prep>>

None == "None"
\* a field that holds None or a tensor
NoTensor == [isNone |-> TRUE]
Tensor(m) == [isNone |-> FALSE, m |-> m]

\* ------------------------------------------------------------- fractions
Frac(n, d) == [n |-> n, d |-> d]
Zero == Frac(0, 1)
FracLeq(a, b) == a.n * b.d <= b.n * a.d
FracLt(a, b) == a.n * b.d < b.n * a.d
FracEq(a, b) == a.n * b.d = b.n * a.d

\* ---------------------------------------------------------------- NoamOpt
\* The state of a wrapper together with the torch optimizer it wraps:
\*   step, rate      the wrapper's _step and _rate
\*   lr              optimizer.param_groups[g]['lr'], one per group
\*   usedLr          the lr of each group as the last optimizer.step() saw it
\*   updates         number of optimizer.step() calls
\*   ev              the events of the handler call in progress, in order
WrapperInit(lr0, groups) ==
    [step |-> 0, rate |-> Zero, lr |-> [g \in 1..groups |-> lr0],
     usedLr |-> [g \in 1..groups |-> Zero], updates |-> 0, ev |-> <<>>]

\* min(step ** (-0.5), step * warmup ** (-1.5)), squared:
\*   (step ** -0.5) ^ 2 = 1 / step
\*   (step * warmup ** -1.5) ^ 2 = step^2 / warmup^3 = 8 * step^2 / warmup2^3
\* Python's min(a, b) is b when b < a and a otherwise.
NoamMinBad(wm2, step) ==
    LET a == Frac(1, step)
        b == Frac(8 * step * step, wm2 * wm2 * wm2)
    IN  IF FracLt(b, a) THEN a ELSE b

NoamMin(wm2, step) ==
    LET a == Frac(1, step)
        b == Frac(8 * step * step, wm2 * wm2 * wm2)
    IN  IF FracLt(b, a) THEN b ELSE a

\* NoamOpt.rate(step), squared: factor^2 * (1 / model_size) * min(..)^2
NoamRate(f, ms, wm2, step) ==
    LET m == NoamMin(wm2, step)
    IN  Frac(f * f * m.n, ms * m.d)

\* optimizer.step() of the wrapped torch optimizer: it updates the
\* parameters with the lr each group holds at that moment.
OptimizerStep(s) ==
    [s EXCEPT !.usedLr = s.lr, !.updates = @ + 1, !.ev = Append(@, "update")]

\* for p in self.optimizer.param_groups: p['lr'] = rate
RECURSIVE WriteLr(_, _, _)
WriteLr(s, rate, g) ==
    IF g > Len(s.lr) THEN s
    ELSE WriteLr([s EXCEPT !.lr[g] = rate, !.ev = Append(@, "lr")], rate, g + 1)

NoamOptStepBad(s, f, ms, wm2) ==
    LET s1 == [s EXCEPT !.step = @ + 1, !.ev = Append(@, "inc")]
        rate == NoamRate(f, ms, wm2, s1.step)
        s2 == OptimizerStep([s1 EXCEPT !.ev = Append(@, "rate")])
        s3 == WriteLr(s2, rate, 1)
    IN  [s3 EXCEPT !.rate = rate]

\* NoamOpt.step
NoamOptStep(s, f, ms, wm2) ==
    LET s1 == [s EXCEPT !.step = @ + 1, !.ev = Append(@, "inc")]
        rate == NoamRate(f, ms, wm2, s1.step)
        s2 == WriteLr([s1 EXCEPT !.ev = Append(@, "rate")], rate, 1)
        s3 == [s2 EXCEPT !.rate = rate]
    IN  OptimizerStep(s3)

\* ------------------------------------------------------------- CustomAdam
\* scheduler.step(loss) of an externally supplied scheduler: it may store
\* any learning rate in each parameter group; newLr is what it stores.
SchedulerStep(s, newLr) ==
    [s EXCEPT !.lr = newLr, !.ev = Append(@, "sched")]

\* for p in self.optimizer.param_groups: self._rate = p['lr']
RECURSIVE ReadLr(_, _)
ReadLr(s, g) ==
    IF g > Len(s.lr) THEN s
    ELSE ReadLr([s EXCEPT !.rate = s.lr[g], !.ev = Append(@, "read")], g + 1)

CustomAdamStepBad(s, sched, newLr) ==
    LET s1 == [s EXCEPT !.step = @ + 1, !.ev = Append(@, "inc")]
        s2 == OptimizerStep(s1)
        s3 == IF sched THEN SchedulerStep(s2, newLr) ELSE s2
    IN  ReadLr(s3, 1)

\* CustomAdam.step
CustomAdamStep(s, sched, newLr) ==
    LET s1 == [s EXCEPT !.step = @ + 1, !.ev = Append(@, "inc")]
        s2 == ReadLr(s1, 1)
        s3 == OptimizerStep(s2)
    IN  IF sched THEN SchedulerStep(s3, newLr) ELSE s3

LrSet == {Frac(k, 1) : k \in 0..MaxLr}

\* --------------------------------------------------------- LabelSmoothing
\* smoothing is carried as a numerator over SmoothDen; a tensor entry is a
\* fraction [n, d] (FracEq compares entries, so -0.0 equals 0.0 as in torch).
\* A 2-d tensor is a sequence of rows; column c of the code is column c + 1.
SmoothDen == 10 * MaxSmoothN

ConfidenceBad(sm) == Frac(sm, SmoothDen)

\* self.confidence = 1.0 - smoothing
Confidence(sm) == Frac(SmoothDen - sm, SmoothDen)

\* LabelSmoothing.__init__
LabelSmoothingInit(size, padding_idx, sm) ==
    [size |-> size, padding_idx |-> padding_idx, smoothing |-> sm,
     confidence |-> Confidence(sm)]

\* true_dist.fill_(v) on a tensor of the shape of x
Fill(rows, cols, v) == [i \in 1..rows |-> [c \in 1..cols |-> v]]

\* true_dist.scatter_(1, target.unsqueeze(1), v)
Scatter(m, target, v) ==
    [i \in 1..Len(m) |-> [c \in 1..Len(m[i]) |->
        IF c = target[i] + 1 THEN v ELSE m[i][c]]]

\* true_dist[:, col] = 0
ZeroColumn(m, col) ==
    [i \in 1..Len(m) |-> [c \in 1..Len(m[i]) |->
        IF c = col + 1 THEN Zero ELSE m[i][c]]]

\* torch.nonzero(target == v, as_tuple=False): an n-by-1 tensor holding the
\* indices of the matching rows, in order
RECURSIVE NonzeroEq(_, _, _)
NonzeroEq(target, v, i) ==
    IF i > Len(target) THEN <<>>
    ELSE (IF target[i] = v THEN << <<i>> >> ELSE <<>>) \o NonzeroEq(target, v, i + 1)

\* mask.dim() of that n-by-1 tensor
Dim2 == 2

\* mask.squeeze() of an n-by-1 tensor: every dimension of extent 1 goes, so
\* one match leaves a 0-d scalar and any other count a vector
Squeeze(m) ==
    [dim |-> IF Len(m) = 1 THEN 0 ELSE 1, idx |-> [k \in 1..Len(m) |-> m[k][1]]]

IndexFillBad(m, index, v) ==
    IF index.dim = 0 THEN m
    ELSE [i \in 1..Len(m) |->
            IF \E k \in 1..Len(index.idx) : index.idx[k] = i
            THEN [c \in 1..Len(m[i]) |-> v] ELSE m[i]]

\* true_dist.index_fill_(0, index, v): index is a vector or a scalar
IndexFill(m, index, v) ==
    [i \in 1..Len(m) |->
        IF \E k \in 1..Len(index.idx) : index.idx[k] = i
        THEN [c \in 1..Len(m[i]) |-> v] ELSE m[i]]

\* LabelSmoothing.forward(x, target) for x of shape (Len(target), cols):
\* how it ends and the true_dist it leaves in self (old when it raises)
Forward(cfg, cols, target, old) ==
    IF cols # cfg.size THEN [out |-> "AssertionError", dist |-> old]
    ELSE IF cfg.size - 2 = 0 THEN [out |-> "ZeroDivisionError", dist |-> old]
    ELSE
      LET d0 == Fill(Len(target), cols,
                     Frac(cfg.smoothing, SmoothDen * (cfg.size - 2)))
          d1 == Scatter(d0, target, cfg.confidence)
          d2 == ZeroColumn(d1, cfg.padding_idx)
          mk == NonzeroEq(target, cfg.padding_idx, 1)
          d3 == IF Dim2 > 0 THEN IndexFill(d2, Squeeze(mk), Zero) ELSE d2
      IN  [out |-> "ok", dist |-> Tensor(d3)]

Targets(size, rows) == UNION {[1..n -> 0..(size - 1)] : n \in 0..rows}

\* ----------------------------------------------------------- loss compute
\* The state a loss-compute call works on: the wrapper and its optimizer (w,
\* with the events of the call in w.ev), the gradient buffer of the model's
\* parameter and the criterion's true_dist.
\* loss.backward(): autograd adds the gradient g of this loss to the buffer
Backward(s, g) == [s EXCEPT !.grad = @ + g, !.w.ev = Append(@, "backward")]

\* nn.utils.clip_grad_norm_(model.parameters(), 1.): a buffer of norm above 1
\* is scaled to norm 1 / (1 + 1e-6), carried here as 1
ClipGradNorm(s) ==
    [s EXCEPT !.grad = IF @ > 1 THEN 1 ELSE IF @ < -1 THEN -1 ELSE @,
              !.w.ev = Append(@, "clip")]

\* self.opt.step(..): the step of whichever wrapper was supplied; h holds
\* the wrapper's construction arguments
OptStep(s, kind, h, newLr) ==
    [s EXCEPT !.w = IF kind = "noam"
                    THEN NoamOptStep(@, h.factor, h.model_size, h.warmup2)
                    ELSE CustomAdamStep(@, h.sched, newLr)]

\* self.opt.optimizer.zero_grad()
ZeroGrad(s) == [s EXCEPT !.grad = 0, !.w.ev = Append(@, "zero_grad")]

\* self.criterion(x, y) with a LabelSmoothing criterion
Criterion(s, cfg, target) ==
    [s EXCEPT !.dist = Forward(cfg, cfg.size, target, @).dist]

SimpleLossComputeBad(s, kind, h, cfg, target, g, newLr) ==
    LET s1 == Criterion(s, cfg, target)
        s2 == Backward(s1, g)
    IN  IF kind # "none" THEN OptStep(s2, kind, h, newLr) ELSE s2

\* SimpleLossCompute.__call__
SimpleLossCompute(s, kind, h, cfg, target, g, newLr) ==
    LET s1 == Criterion(s, cfg, target)
        s2 == Backward(s1, g)
    IN  IF kind # "none" THEN ZeroGrad(OptStep(s2, kind, h, newLr)) ELSE s2

SimpleTT2LossComputeBad(s, kind, h, g, newLr) ==
    LET s1 == Backward(s, g)
        s2 == ClipGradNorm(s1)
    IN  IF kind # "none" THEN OptStep(ZeroGrad(s2), kind, h, newLr) ELSE s2

\* SimpleTT2LossCompute.__call__
SimpleTT2LossCompute(s, kind, h, g, newLr) ==
    LET s1 == Backward(s, g)
        s2 == ClipGradNorm(s1)
    IN  IF kind # "none" THEN ZeroGrad(OptStep(s2, kind, h, newLr)) ELSE s2

\* -------------------------------------------------------------- masks
\* A 3-d tensor is a sequence (batch) of matrices.
\* np.ones((1, size, size))
Ones(size) == << [r \in 1..size |-> [c \in 1..size |-> 1]] >>

\* np.triu(t, k): in each matrix the entries with column - row >= k stay,
\* the others become 0
Triu(t, k) ==
    [b \in 1..Len(t) |-> [r \in 1..Len(t[b]) |-> [c \in 1..Len(t[b][r]) |->
        IF c - r >= k THEN t[b][r][c] ELSE 0]]]

\* .astype('uint8')
AsUint8(t) ==
    [b \in 1..Len(t) |-> [r \in 1..Len(t[b]) |-> [c \in 1..Len(t[b][r]) |->
        t[b][r][c] % 256]]]

\* torch.from_numpy(mask) == 0
EqZero(t) ==
    [b \in 1..Len(t) |-> [r \in 1..Len(t[b]) |-> [c \in 1..Len(t[b][r]) |->
        t[b][r][c] = 0]]]

SubsequentMaskBad(size) == EqZero(AsUint8(Triu(Ones(size), 0)))

\* subsequent_mask(size)
SubsequentMask(size) == EqZero(AsUint8(Triu(Ones(size), 1)))

\* Batch.make_std_mask(tgt, pad) for a batch of one sequence whose frame
\* sums are sums: (sums != pad), unsqueezed to 1 x 1 x T, and-ed (broadcast)
\* with the 1 x T x T subsequent mask
MakeStdMask(sums, p) ==
    LET sub == SubsequentMask(Len(sums))
    IN  << [r \in 1..Len(sums) |-> [c \in 1..Len(sums) |->
            (sums[c] # p) /\ sub[1][r][c]]] >>

\* ------------------------------------------------------------- Batch
\* trg_set is None, a dict {'trg', 'trg_stops'} or a tensor; indexing a
\* tensor with the string 'trg' raises IndexError.
NoneArg == [kind |-> "None"]
TensorArg(data) == [kind |-> "tensor", data |-> data]
DictArg(trg, stops) == [kind |-> "dict", trg |-> trg, trg_stops |-> stops]

\* x[1:] and x[:-1] along the time axis
Rest(x) == IF Len(x) = 0 THEN x ELSE Tail(x)
Front(x) == IF Len(x) = 0 THEN x ELSE SubSeq(x, 1, Len(x) - 1)

\* Batch.__init__(src, trg_set, pad)
BatchInit(src, trg_set, p) ==
    IF trg_set.kind = "None" THEN [ok |-> TRUE, src |-> src]
    ELSE IF trg_set.kind # "dict" THEN [ok |-> FALSE, err |-> "IndexError"]
    ELSE
      LET trg == Front(trg_set.trg)
          trg_y == Rest(trg_set.trg)
      IN  [ok |-> TRUE, src |-> src, trg |-> trg, trg_y |-> trg_y,
           trg_mask |-> MakeStdMask(trg, p),
           nframes |-> Cardinality({i \in 1..Len(trg_y) : trg_y[i] # p}),
           trg_stops |-> trg_set.trg_stops,
           stop_tokens |-> Rest(trg_set.trg_stops)]

\* ------------------------------------------------------------ data_gen
\* data[:, 0] = 1
SetFirstColumn(data, v) ==
    [i \in 1..Len(data) |-> [c \in 1..Len(data[i]) |->
        IF c = 1 THEN v ELSE data[i][c]]]

\* the generator object data_gen(V, batch, nbatches, device) before its
\* first next(); data is the local of that name once a round has set it
DataGen(V, batch, nbatches) ==
    [state |-> "suspended", V |-> V, batch |-> batch, nbatches |-> nbatches,
     i |-> 0, data |-> NoTensor, yielded |-> <<>>]

\* next() on the generator; random is what np.random.randint(1, V,
\* size=(batch, 10)) returns in this round
DataGenNext(g, random) ==
    IF g.i >= g.nbatches THEN [g EXCEPT !.state = "done"]
    ELSE
      LET data == SetFirstColumn(random, 1)
          b == BatchInit(data, TensorArg(data), 0)
      IN  IF b.ok
          THEN [g EXCEPT !.i = @ + 1, !.data = Tensor(data),
                         !.yielded = Append(@, b)]
          ELSE [g EXCEPT !.state = "raised", !.data = Tensor(data)]

\* --------------------------------------- data_prepare_tt2, data_gen_tt2
\* utils.get_sample_batch(batch_size, start, vocab, random): a batch of
\* samples and the vocabulary, which is the one given when one is given.
\* pick is the sample a random draw selects.
GetSampleBatch(batch_size, start, vocab, random, pick) ==
    LET k == IF random THEN pick ELSE start
    IN  [src |-> <<k + 1, k + 2>>, tgt |-> <<1, 1, 1>>, tgt_stops |-> <<0, 0, 1>>,
         vocab |-> IF vocab = None THEN "vocab" ELSE vocab]

\* the three lists after _append(b)
AppendBatch(d, b) ==
    [d EXCEPT !.src = Append(@, b.src), !.tgt = Append(@, b.tgt),
              !.tgt_stops = Append(@, b.tgt_stops)]

\* the loop of the sequential branch, from round i on
RECURSIVE SequentialLoop(_, _, _, _, _, _)
SequentialLoop(d, i, batch_size, nbatches, random, picks) ==
    IF i >= nbatches THEN d
    ELSE LET b == GetSampleBatch(batch_size, i * batch_size, d.vocab, random,
                                 picks[i + 1])
         IN  SequentialLoop([AppendBatch(d, b) EXCEPT !.vocab = b.vocab],
                            i + 1, batch_size, nbatches, random, picks)

\* the loop of the other branch: count rounds are left, batch is the batch
\* the last get_sample_batch returned
RECURSIVE RepeatLoop(_, _, _, _, _, _)
RepeatLoop(d, batch, count, batch_size, random, picks) ==
    IF count <= 0 THEN d
    ELSE LET b == IF random
                  THEN GetSampleBatch(batch_size, 0, d.vocab, random, picks[count])
                  ELSE batch
         IN  RepeatLoop([AppendBatch(d, b) EXCEPT !.vocab = b.vocab],
                        b, count - 1, batch_size, random, picks)

EmptyData == [src |-> <<>>, tgt |-> <<>>, tgt_stops |-> <<>>, vocab |-> None]

DataPrepareTT2Bad(batch_size, nbatches, random, sequential, picks) ==
    IF sequential
    THEN SequentialLoop(EmptyData, 0, batch_size, nbatches, random, picks)
    ELSE LET b == GetSampleBatch(batch_size, 0, None, random, picks[nbatches + 1])
         IN  RepeatLoop([AppendBatch(EmptyData, b) EXCEPT !.vocab = b.vocab],
                        b, nbatches, batch_size, random, picks)

\* data_prepare_tt2(batch_size, nbatches, random, sequential); picks are
\* the samples the random draws select
DataPrepareTT2(batch_size, nbatches, random, sequential, picks) ==
    IF sequential
    THEN SequentialLoop(EmptyData, 0, batch_size, nbatches, random, picks)
    ELSE LET b == GetSampleBatch(batch_size, 0, None, random, picks[nbatches + 1])
         IN  RepeatLoop([AppendBatch(EmptyData, b) EXCEPT !.vocab = b.vocab],
                        b, nbatches - 1, batch_size, random, picks)

Min3(a, b, c) ==
    IF a <= b /\ a <= c THEN a ELSE IF b <= c THEN b ELSE c

\* next() on the generator data_gen_tt2(data, device): pos triples of the
\* zip are consumed
DataGenTT2Next(d, pos, yielded) ==
    IF pos >= Min3(Len(d.src), Len(d.tgt), Len(d.tgt_stops))
    THEN [state |-> "done", pos |-> pos, yielded |-> yielded]
    ELSE LET b == BatchInit(d.src[pos + 1],
                            DictArg(d.tgt[pos + 1], d.tgt_stops[pos + 1]), 0)
         IN  IF b.ok
             THEN [state |-> "suspended", pos |-> pos + 1,
                   yielded |-> Append(yielded, b)]
             ELSE [state |-> "raised", pos |-> pos, yielded |-> yielded]

\* ------------------------------------------------ values of the idle parts
IdleOpt ==
    /\ optKind = "none" /\ warmup2 = 1 /\ factor = 1 /\ model_size = 1
    /\ hasSched = FALSE /\ w = WrapperInit(Zero, 1) /\ calls = 0
IdleLoss == grad = 0 /\ lastCall = "none"
IdleLS ==
    /\ ls = LabelSmoothingInit(3, 0, 0)
    /\ true_dist = NoTensor /\ lsOut = "none" /\ x_cols = 3 /\ lastTarget = <<>>
IdleMask ==
    tgt = <<>> /\ pad = 0 /\ maskSize = 0 /\ mask = NoTensor /\ tgt_mask = NoTensor
IdleGen == gen = [state |-> "absent"]
IdlePrep == prep = [state |-> "absent"]

\* what a scheduler's step may leave in the parameter groups
SchedulerChoices ==
    IF optKind = "adam" /\ hasSched THEN [1..Len(w.lr) -> LrSet] ELSE {w.lr}

\* ------------------------------------------------- NoamOpt on its own
InitNoam ==
    /\ optKind = "noam"
    /\ warmup2 \in 1..MaxWarmup2
    /\ factor \in 1..MaxFactor
    /\ model_size \in 1..MaxModelSize
    /\ hasSched = FALSE
    /\ \E groups \in 1..MaxGroups : w = WrapperInit(Zero, groups)
    /\ calls = 0
    /\ IdleLoss /\ IdleLS /\ IdleMask /\ IdleGen /\ IdlePrep

\* one call of NoamOpt.step
NoamStepCall ==
    /\ optKind = "noam"
    /\ calls < MaxCalls
    /\ w' = NoamOptStep([w EXCEPT !.ev = <<>>], factor, model_size, warmup2)
    /\ calls' = calls + 1
    /\ UNCHANGED <<optKind, warmup2, factor, model_size, hasSched>>
    /\ UNCHANGED <<varsLoss, varsLS, varsMask, gen, prep>>

NextNoam == NoamStepCall

SpecNoam == InitNoam /\ [][NextNoam]_vars

\* "lr" once per parameter group
LrEvents(groups) == [g \in 1..groups |-> "lr"]

\* C1: every NoamOpt.step increments the counter by one, computes the rate of
\* the new count, writes it into every parameter group and only then runs the
\* wrapped optimizer's step once; after k calls the counter is k and the k-th
\* update saw lr = rate(k) in every group.
C1_NoamStepOrder ==
    /\ w.step = calls
    /\ w.updates = calls
    /\ calls >= 1 =>
        /\ w.ev = <<"inc", "rate">> \o LrEvents(Len(w.lr)) \o <<"update">>
        /\ \A g \in 1..Len(w.lr) :
            /\ w.usedLr[g] = NoamRate(factor, model_size, warmup2, calls)
            /\ w.lr[g] = w.usedLr[g]
        /\ w.rate = NoamRate(factor, model_size, warmup2, calls)

C1_Witness ==
    /\ optKind = "noam" /\ calls = 3 /\ Len(w.lr) = 2
    /\ w.updates = 3 /\ ~FracEq(w.usedLr[2], Zero)

InitAdam ==
    /\ optKind = "adam"
    /\ warmup2 = 1 /\ factor = 1 /\ model_size = 1
    /\ hasSched \in BOOLEAN
    /\ \E groups \in 1..MaxGroups : \E lr0 \in [1..groups -> LrSet] :
        w = [WrapperInit(Zero, groups) EXCEPT !.lr = lr0]
    /\ calls = 0
    /\ IdleLoss /\ IdleLS /\ IdleMask /\ IdleGen /\ IdlePrep

\* one call of CustomAdam.step
AdamStepCall ==
    /\ optKind = "adam"
    /\ calls < MaxCalls
    /\ \E newLr \in SchedulerChoices :
        w' = CustomAdamStep([w EXCEPT !.ev = <<>>], hasSched, newLr)
    /\ calls' = calls + 1
    /\ UNCHANGED <<optKind, warmup2, factor, model_size, hasSched>>
    /\ UNCHANGED <<varsLoss, varsLS, varsMask, gen, prep>>

NextAdam == AdamStepCall

SpecAdam == InitAdam /\ [][NextAdam]_vars

LastLr(s) == s.lr[Len(s.lr)]

\* C9 as stated: when CustomAdam.step returns, the tracked rate equals the
\* learning rate stored in the parameter groups at that moment.
C9_RateIsCurrentLr ==
    (optKind = "adam" /\ calls >= 1) => w.rate = LastLr(w)

\* C9 amended: the tracked rate is the learning rate the last parameter group
\* held when the call began (the one the update of that call used); it is the
\* stored one when there is no scheduler or the scheduler left it unchanged.
C9_RateIsLrAtEntry ==
    [][calls' = calls + 1 =>
        /\ w'.rate = LastLr(w)
        /\ w'.rate = w'.usedLr[Len(w.lr)]
        /\ (~hasSched \/ LastLr(w') = LastLr(w)) => w'.rate = LastLr(w')]_vars

C9_Witness ==
    /\ optKind = "adam" /\ hasSched /\ calls = 2
    /\ w.rate # LastLr(w) /\ w.ev = <<"inc", "read", "read", "update", "sched">>

\* --------------------------------------------- LabelSmoothing on its own
InitLS ==
    /\ \E size \in 1..MaxSize : \E pidx \in 0..(size - 1) :
       \E sm \in 0..MaxSmoothN : ls = LabelSmoothingInit(size, pidx, sm)
    /\ true_dist = NoTensor /\ lsOut = "none"
    /\ x_cols \in {ls.size, ls.size + 1}
    /\ lastTarget \in Targets(ls.size, MaxRows)
    /\ IdleOpt /\ IdleLoss /\ IdleMask /\ IdleGen /\ IdlePrep

\* the call forward(x, target) on the inputs drawn
ForwardCall ==
    /\ lsOut = "none"
    /\ LET r == Forward(ls, x_cols, lastTarget, true_dist)
       IN  true_dist' = r.dist /\ lsOut' = r.out
    /\ UNCHANGED <<ls, x_cols, lastTarget, varsOpt, varsLoss, varsMask, gen, prep>>

NextLS == ForwardCall

SpecLS == InitLS /\ [][NextLS]_vars

PaddingRows == {i \in 1..Len(lastTarget) : lastTarget[i] = ls.padding_idx}

\* C5: after forward(x, target) every row whose target is the padding index
\* is all zeros in true_dist, however many such rows there are.
C5_PaddingRowsZero ==
    lsOut = "ok" =>
        /\ Len(true_dist.m) = Len(lastTarget)
        /\ \A i \in PaddingRows :
            \A c \in 1..ls.size : FracEq(true_dist.m[i][c], Zero)

C5_Witness ==
    /\ lsOut = "ok" /\ ls.smoothing > 0 /\ ls.size = 4
    /\ Len(lastTarget) = 3 /\ Cardinality(PaddingRows) = 1
    /\ \E i \in 1..3 : \E c \in 1..4 : ~FracEq(true_dist.m[i][c], Zero)

InitLoss ==
    /\ optKind \in {"none", "noam", "adam"}
    /\ warmup2 = 4 /\ factor = 2 /\ model_size = 1
    /\ hasSched \in (IF optKind = "adam" THEN BOOLEAN ELSE {FALSE})
    /\ \E lr0 \in (IF optKind = "adam" THEN LrSet ELSE {Zero}) :
        w = WrapperInit(lr0, 1)
    /\ calls = 0
    /\ grad = 0 /\ lastCall = "none"
    /\ ls = LabelSmoothingInit(3, 0, MaxSmoothN)
    /\ true_dist = NoTensor /\ lsOut = "none" /\ x_cols = 3 /\ lastTarget = <<>>
    /\ IdleMask /\ IdleGen /\ IdlePrep

Hyper ==
    [factor |-> factor, model_size |-> model_size, warmup2 |-> warmup2,
     sched |-> hasSched]
LossState == [w |-> [w EXCEPT !.ev = <<>>], grad |-> grad, dist |-> true_dist]
Grads == (-MaxG)..MaxG

\* one call of SimpleLossCompute.__call__
SimpleCall ==
    /\ calls < MaxLossCalls
    /\ \E target \in Targets(ls.size, 1) : \E g \in Grads :
       \E newLr \in SchedulerChoices :
        LET r == SimpleLossCompute(LossState, optKind, Hyper, ls, target, g, newLr)
        IN  /\ w' = r.w /\ grad' = r.grad /\ true_dist' = r.dist
            /\ lastTarget' = target
    /\ lsOut' = "ok"
    /\ lastCall' = "simple"
    /\ calls' = calls + 1
    /\ UNCHANGED <<optKind, warmup2, factor, model_size, hasSched, ls, x_cols>>
    /\ UNCHANGED <<varsMask, gen, prep>>

\* one call of SimpleTT2LossCompute.__call__
TT2Call ==
    /\ calls < MaxLossCalls
    /\ \E g \in Grads : \E newLr \in SchedulerChoices :
        LET r == SimpleTT2LossCompute(LossState, optKind, Hyper, g, newLr)
        IN  w' = r.w /\ grad' = r.grad /\ true_dist' = r.dist
    /\ lastCall' = "tt2"
    /\ calls' = calls + 1
    /\ UNCHANGED <<optKind, warmup2, factor, model_size, hasSched>>
    /\ UNCHANGED <<ls, lsOut, x_cols, lastTarget, varsMask, gen, prep>>

NextLoss == SimpleCall \/ TT2Call

SpecLoss == InitLoss /\ [][NextLoss]_vars

Positions(e) == {i \in 1..Len(w.ev) : w.ev[i] = e}

\* C3: a loss-compute call backpropagates first, then clips (stop-token
\* variant only), then runs the wrapper's step, then clears the gradients; the
\* step and the clear happen once each, and together, exactly when a wrapper
\* was supplied, the clear after the step.
C3_CallOrder ==
    lastCall # "none" =>
        LET afterBackprop == IF lastCall = "tt2" THEN 3 ELSE 2
        IN  /\ Positions("backward") = {1}
            /\ Positions("clip") = (IF lastCall = "tt2" THEN {2} ELSE {})
            /\ IF optKind = "none"
               THEN /\ Len(w.ev) = afterBackprop - 1
                    /\ w.updates = 0 /\ w.step = 0
               ELSE /\ Positions("inc") = {afterBackprop}
                    /\ Cardinality(Positions("update")) = 1
                    /\ Positions("zero_grad") = {Len(w.ev)}
                    /\ \A i \in Positions("update") : i < Len(w.ev)
                    /\ w.updates = calls /\ w.step = calls

C3_Witness ==
    /\ lastCall = "tt2" /\ optKind = "noam" /\ calls = 2
    /\ w.ev = <<"backward", "clip", "inc", "rate", "lr", "update", "zero_grad">>

\* C4 as stated: between loss-compute calls nothing a call wrote remains in
\* the model's gradient buffers or in the criterion's fields.
C4_NothingCarried ==
    calls >= 1 => (grad = 0 /\ true_dist = NoTensor)

\* C4 amended: with a wrapper the gradient buffers are clear after every call;
\* without one each call adds its gradient to what the earlier calls left
\* (the stop-token variant then clips the sum); and the criterion keeps the
\* smoothed distribution of its last forward until the next one replaces it.
C4_CarriedState ==
    [][calls' = calls + 1 =>
        /\ optKind # "none" => grad' = 0
        /\ (optKind = "none" /\ lastCall' = "simple") =>
                \E g \in Grads : grad' = grad + g
        /\ (optKind = "none" /\ lastCall' = "tt2") =>
                \E g \in Grads : grad' = ClipGradNorm(Backward(LossState, g)).grad
        /\ lastCall' = "tt2" => true_dist' = true_dist
        /\ lastCall' = "simple" =>
                true_dist' = Forward(ls, ls.size, lastTarget', true_dist).dist
                    /\ true_dist' # NoTensor]_vars

C4_Witness ==
    /\ optKind = "none" /\ calls = 3 /\ lastCall = "tt2"
    /\ grad = 1 /\ true_dist # NoTensor

\* ----------------------------------------------------------- the masks
InitMask ==
    /\ tgt \in UNION {[1..n -> 0..1] : n \in 0..MaxN}
    /\ pad \in 0..1
    /\ maskSize = 0 /\ mask = NoTensor /\ tgt_mask = NoTensor
    /\ IdleOpt /\ IdleLoss /\ IdleLS /\ IdleGen /\ IdlePrep

\* one call of subsequent_mask(size)
SubsequentMaskCall ==
    /\ \E size \in 0..MaxN :
        maskSize' = size /\ mask' = Tensor(SubsequentMask(size))
    /\ UNCHANGED <<tgt, pad, tgt_mask, varsOpt, varsLoss, varsLS, gen, prep>>

\* one call of Batch.make_std_mask(tgt, pad)
MakeStdMaskCall ==
    /\ tgt_mask = NoTensor
    /\ tgt_mask' = Tensor(MakeStdMask(tgt, pad))
    /\ UNCHANGED <<tgt, pad, maskSize, mask, varsOpt, varsLoss, varsLS, gen, prep>>

NextMask == SubsequentMaskCall \/ MakeStdMaskCall

SpecMask == InitMask /\ [][NextMask]_vars

\* C7: for N >= 1, subsequent_mask(N) is one N-by-N boolean matrix (under a
\* batch dimension of 1) that is True exactly where column <= row.
C7_LowerTriangular ==
    (~mask.isNone /\ maskSize >= 1) =>
        /\ Len(mask.m) = 1
        /\ Len(mask.m[1]) = maskSize
        /\ \A r \in 1..maskSize :
            /\ Len(mask.m[1][r]) = maskSize
            /\ \A c \in 1..maskSize : mask.m[1][r][c] = (c <= r)

C7_Witness ==
    /\ ~mask.isNone /\ maskSize = 4
    /\ mask.m[1][2][2] /\ ~mask.m[1][2][3] /\ mask.m[1][4][1]

\* ---------------------------------------------------------- data_gen
InitGen ==
    /\ \E V \in 2..MaxV : \E batch \in 0..MaxBatch : \E nbatches \in 0..MaxNb :
        gen = DataGen(V, batch, nbatches)
    /\ IdleOpt /\ IdleLoss /\ IdleLS /\ IdleMask /\ IdlePrep

\* one next() on the data_gen generator
DataGenNextCall ==
    /\ gen.state = "suspended"
    /\ \E random \in [1..gen.batch -> [1..SeqCols -> 1..(gen.V - 1)]] :
        gen' = DataGenNext(gen, random)
    /\ UNCHANGED <<varsOpt, varsLoss, varsLS, varsMask, prep>>

NextGen == DataGenNextCall

SpecGen == InitGen /\ [][NextGen]_vars

\* C8: iterating data_gen(V, batch, nbatches, device) to its end yields
\* exactly nbatches batches, each with first column 1 and every other entry
\* in [1, V).
C8_YieldsAllBatches ==
    gen.state \in {"done", "raised"} =>
        /\ gen.state = "done"
        /\ Len(gen.yielded) = gen.nbatches
        /\ \A k \in 1..Len(gen.yielded) :
            \A i \in 1..gen.batch : \A c \in 1..SeqCols :
                LET v == gen.yielded[k].src[i][c]
                IN  IF c = 1 THEN v = 1 ELSE v >= 1 /\ v < gen.V

\* -------------------------------------- data_prepare_tt2, data_gen_tt2
InitPrep ==
    /\ \E batch_size \in 1..(MaxBatch + 1) : \E nbatches \in 0..MaxNb :
       \E random \in BOOLEAN : \E sequential \in BOOLEAN :
        prep = [state |-> "args", batch_size |-> batch_size,
                nbatches |-> nbatches, random |-> random,
                sequential |-> sequential]
    /\ IdleOpt /\ IdleLoss /\ IdleLS /\ IdleMask /\ IdleGen

\* data = data_prepare_tt2(..), then data_gen_tt2(data, device) is created
PrepareCall ==
    /\ prep.state = "args"
    /\ \E picks \in [1..(prep.nbatches + 1) ->
                        IF prep.random THEN 0..MaxSample ELSE {0}] :
        prep' = [state |-> "suspended",
                 batch_size |-> prep.batch_size, nbatches |-> prep.nbatches,
                 random |-> prep.random, sequential |-> prep.sequential,
                 data |-> DataPrepareTT2(prep.batch_size, prep.nbatches,
                                         prep.random, prep.sequential, picks),
                 pos |-> 0, yielded |-> <<>>]
    /\ UNCHANGED <<varsOpt, varsLoss, varsLS, varsMask, gen>>

\* one next() on the data_gen_tt2 generator
GenTT2NextCall ==
    /\ prep.state = "suspended"
    /\ LET r == DataGenTT2Next(prep.data, prep.pos, prep.yielded)
       IN  prep' = [prep EXCEPT !.state = r.state, !.pos = r.pos,
                                !.yielded = r.yielded]
    /\ UNCHANGED <<varsOpt, varsLoss, varsLS, varsMask, gen>>

NextPrep == PrepareCall \/ GenTT2NextCall

SpecPrep == InitPrep /\ [][NextPrep]_vars

Prepared == prep.state \in {"suspended", "done", "raised"}

\* C10 as stated: for any nbatches >= 0 and any flags the three lists have
\* length nbatches, and data_gen_tt2 yields nbatches batches.
C10_LengthIsNbatches ==
    Prepared =>
        /\ Len(prep.data.src) = prep.nbatches
        /\ Len(prep.data.tgt) = prep.nbatches
        /\ Len(prep.data.tgt_stops) = prep.nbatches
        /\ prep.state = "done" => Len(prep.yielded) = prep.nbatches

ExpectedLength ==
    IF prep.sequential \/ prep.nbatches >= 1 THEN prep.nbatches ELSE 1

\* C10 amended: the three lists have one length, which is nbatches in the
\* sequential branch and max(nbatches, 1) in the other (so nbatches whenever
\* nbatches >= 1), and data_gen_tt2 yields that many batches.
C10_LengthsAgree ==
    Prepared =>
        /\ Len(prep.data.src) = ExpectedLength
        /\ Len(prep.data.tgt) = ExpectedLength
        /\ Len(prep.data.tgt_stops) = ExpectedLength
        /\ prep.state # "raised"
        /\ Len(prep.yielded) = prep.pos
        /\ prep.state = "done" => Len(prep.yielded) = ExpectedLength

C10_Witness ==
    /\ prep.state = "done" /\ ~prep.sequential /\ prep.random
    /\ prep.nbatches = 3 /\ Len(prep.yielded) = 3
    /\ prep.data.src[1] # prep.data.src[2]

====
